---------------------------- MODULE Spec2Model ----------------------------
(***************************************************************************)
(* A model of sso-profiles (src/src/lib.rs, src/src/main.rs):             *)
(*   - SSOProfilesLister::device_code_flow, the device authorization      *)
(*     grant with its token polling loop;                                 *)
(*   - SSOProfilesLister::list_sso_profiles, the nested pagination over   *)
(*     accounts and their roles;                                          *)
(*   - AwsConfigMerger::merge, the merge of the discovered profiles into  *)
(*     the insertion-ordered section map of the configuration document;   *)
(*   - main and SSOProfilesLister::list, which run the three in sequence  *)
(*     and persist the document.                                          *)
(* Strings the merge inspects (section names, prefixes, account and role  *)
(* names) are sequences of one-character strings, so that starts_with,    *)
(* replace and format! are computed character by character.  Strings the  *)
(* program only passes on (ids, tokens, URLs, errors) are TLA+ strings.   *)
(***************************************************************************)
EXTENDS Integers, Sequences, FiniteSets, TLC

VARIABLES
    pc,             \* the position of the single thread of control
    start_url,      \* SSOProfilesLister.start_url
    sso_region,     \* SSOProfilesLister.sso_region
    \* ---- device_code_flow
    registered,     \* the register_client response received
    registration,   \* <<client_id, client_secret>> once both were obtained
    authorized,     \* the start_device_authorization response received
    session,        \* <<verification_uri, device_code>> once both were obtained
    opened,         \* what open::that returned: "untried", "ok" or "failed"
    presented,      \* how many times the verification URI was printed
    sleeps,         \* thread::sleep calls of the polling loop (saturating)
    tokenRequests,  \* create_token requests sent (saturating)
    responses,      \* the create_token responses received, oldest first
    token_output,   \* the value the polling loop broke with
    dcf_result,     \* what device_code_flow returned
    \* ---- list_sso_profiles
    inventory,      \* how many account and role items the provider holds
    accountsServed, \* every account item the provider returned, in order
    rolesServed,    \* per served account: the role items returned for it
    badResponse,    \* the first page response that was an error or unusable
    accMore,        \* the account paginator has another page to fetch
    roleMore,       \* the last role page of the account announced another
    account,        \* index in accountsServed of the account last yielded
    requests,       \* the list_accounts / list_account_roles requests sent
    sso_profiles,   \* the Vec<SSOProfile> being accumulated / merged
    list_result,    \* what list_sso_profiles returned
    \* ---- merge
    ini_map,        \* the document: a sequence of <<section name, body>>
    ini0,           \* the document as it was before the first merge
    prefix,         \* AwsConfigMerger.prefix
    clean,          \* AwsConfigMerger.clean
    idx,            \* position of the for loop over sso_profiles
    merges,         \* completed calls of merge on this document
    \* ---- main
    populate,       \* Args.populate
    writes,         \* the documents persisted: <<"file" or "stdout", document>>
    main_result     \* what main returned

vars == <<pc, start_url, sso_region, registered, registration, authorized,
          session, opened, presented, sleeps, tokenRequests,
          responses, token_output, dcf_result, inventory, accountsServed,
          rolesServed,
          badResponse, accMore, roleMore, account, requests, sso_profiles,
          list_result, ini_map, ini0, prefix, clean, idx, merges,
          populate, writes, main_result>>

authVars == <<registered, registration, authorized, session, opened,
              presented, sleeps, tokenRequests, responses, token_output,
              dcf_result>>

listVars == <<accountsServed, rolesServed, badResponse, accMore, roleMore,
              account, requests, list_result>>

mergeVars == <<ini_map, ini0, prefix, clean, idx, merges>>

mainVars == <<populate, writes, main_result>>

\* Option<T>: None is the empty sequence, Some(v) the sequence holding v.
None == <<>>

Some(v) == <<v>>

\* The value of a result or output variable that was not assigned yet.
Unset == [kind |-> "Unset"]

Ok(v) == [kind |-> "Ok", value |-> v]

Err(e) == [kind |-> "Err", error |-> e]

(***************************************************************************)
(* Bounds of the model.                                                    *)
(***************************************************************************)
\* The counters and the response history of the polling loop are exact
\* below MaxPolls and saturate there: the loop itself is not bounded.
MaxPolls == 5

\* The provider serves at most MaxAccounts account items and at most
\* MaxRoles role items (over all accounts) in one discovery.
MaxAccounts == 3

MaxRoles == 2

\* The arguments of SSOProfilesLister::new (main.rs 10, 13-14, 69).
StartUrls == {"https://x.awsapps.com/start"}

Regions == {"us-east-1"}

(***************************************************************************)
(* device_code_flow (lib.rs 56-128)                                        *)
(***************************************************************************)
Saturate(n) == IF n < MaxPolls THEN n + 1 ELSE MaxPolls

\* The last MaxPolls responses: the whole history while it is shorter.
Remember(h, res) ==
    IF Len(h) < MaxPolls THEN Append(h, res) ELSE Append(Tail(h), res)

\* register_client().send(): Ok with optional fields, or an SdkError.
RegisterResponses ==
    { Ok([client_id |-> c, client_secret |-> s]) :
          c \in {None, Some("client-1"), Some("client-2")},
          s \in {None, Some("client-secret")} }
    \cup { Err("RegisterClientError") }

\* start_device_authorization().send()
DeviceAuthorizationResponses ==
    { Ok([verification_uri_complete |-> u, device_code |-> d]) :
          u \in {None, Some("https://device.sso/?user_code=X")},
          d \in {None, Some("device-code")} }
    \cup { Err("StartDeviceAuthorizationError") }

\* create_token().send(): a token output, a service error of some kind, or
\* an SdkError that is not a ServiceError.
ServiceErrorKinds ==
    {"AuthorizationPendingException", "SlowDownException",
     "AccessDeniedException", "ExpiredTokenException"}

TokenResponses ==
    { [kind |-> "Ok", access_token |-> t] : t \in {None, Some("T"), Some("U")} }
    \cup { [kind |-> "ServiceError", err |-> k] : k \in ServiceErrorKinds }
    \cup { [kind |-> "DispatchFailure", err |-> "connection reset"],
           [kind |-> "TimeoutError", err |-> "timed out"] }

\* A slip in the match: every service error continues the loop.
IsPendingAnyService(res) == res.kind = "ServiceError"

\* A slip in the match: no error continues the loop.
IsPendingNever(res) == FALSE

\* lib.rs 114-115: the one arm of the match that continues the loop.
IsPending(res) ==
    res.kind = "ServiceError" /\ res.err = "AuthorizationPendingException"

\* lib.rs 116, 118: anyhow!(err) of the service error, or of the SdkError.
ErrorOf(res) == IF res.kind = "ServiceError" THEN res.err ELSE res.kind

\* lib.rs 59-72
RegisterClient ==
    /\ pc = "register_client"
    /\ \E res \in RegisterResponses :
        /\ registered' = res
        /\ IF res.kind = "Err"
           THEN /\ dcf_result' = Err(res.error)
                /\ pc' = "dcf_return"
                /\ UNCHANGED registration
           ELSE IF res.value.client_id = None
           THEN /\ dcf_result' = Err("SSO Client Registration provided no client id")
                /\ pc' = "dcf_return"
                /\ UNCHANGED registration
           ELSE IF res.value.client_secret = None
           THEN /\ dcf_result' = Err("SSO Client Registration provided no client secret")
                /\ pc' = "dcf_return"
                /\ UNCHANGED registration
           ELSE /\ registration' = <<res.value.client_id[1],
                                     res.value.client_secret[1]>>
                /\ pc' = "start_device_authorization"
                /\ UNCHANGED dcf_result
    /\ UNCHANGED <<authorized, session, opened, presented, sleeps,
                   tokenRequests, responses, token_output>>
    /\ UNCHANGED <<start_url, sso_region, inventory, mainVars, listVars, sso_profiles, mergeVars>>

\* A response without device code is accepted, the code taken as empty.
StartDeviceAuthorizationNoCode ==
    /\ pc = "start_device_authorization"
    /\ \E res \in DeviceAuthorizationResponses :
        /\ authorized' = res
        /\ IF res.kind = "Err"
           THEN /\ dcf_result' = Err(res.error)
                /\ pc' = "dcf_return"
                /\ UNCHANGED session
           ELSE IF res.value.verification_uri_complete = None
           THEN /\ dcf_result' = Err("SSO Device Authorization provided no verification URL")
                /\ pc' = "dcf_return"
                /\ UNCHANGED session
           ELSE /\ session' = <<res.value.verification_uri_complete[1],
                                IF res.value.device_code = None THEN ""
                                ELSE res.value.device_code[1]>>
                /\ pc' = "open"
                /\ UNCHANGED dcf_result
    /\ UNCHANGED <<registered, registration, opened, presented, sleeps,
                   tokenRequests, responses, token_output>>
    /\ UNCHANGED <<start_url, sso_region, inventory, mainVars, listVars, sso_profiles, mergeVars>>

\* lib.rs 74-90
StartDeviceAuthorization ==
    /\ pc = "start_device_authorization"
    /\ \E res \in DeviceAuthorizationResponses :
        /\ authorized' = res
        /\ IF res.kind = "Err"
           THEN /\ dcf_result' = Err(res.error)
                /\ pc' = "dcf_return"
                /\ UNCHANGED session
           ELSE IF res.value.verification_uri_complete = None
           THEN /\ dcf_result' = Err("SSO Device Authorization provided no verification URL")
                /\ pc' = "dcf_return"
                /\ UNCHANGED session
           ELSE IF res.value.device_code = None
           THEN /\ dcf_result' = Err("SSO Device Authorization provided no device code")
                /\ pc' = "dcf_return"
                /\ UNCHANGED session
           ELSE /\ session' = <<res.value.verification_uri_complete[1],
                                res.value.device_code[1]>>
                /\ pc' = "open"
                /\ UNCHANGED dcf_result
    /\ UNCHANGED <<registered, registration, opened, presented, sleeps,
                   tokenRequests, responses, token_output>>
    /\ UNCHANGED <<start_url, sso_region, inventory, mainVars, listVars, sso_profiles, mergeVars>>

\* The loop entered at its request, the sleep left to the pending arm.
OpenThatThenRequest ==
    /\ pc = "open"
    /\ \E ok \in BOOLEAN : opened' = IF ok THEN "ok" ELSE "failed"
    /\ presented' = presented + 1
    /\ pc' = "create_token"
    /\ UNCHANGED <<registered, registration, authorized, session, sleeps,
                   tokenRequests, responses, token_output, dcf_result>>
    /\ UNCHANGED <<start_url, sso_region, inventory, mainVars, listVars, sso_profiles, mergeVars>>

\* The URI is printed only when it could not be opened.
OpenThatQuiet ==
    /\ pc = "open"
    /\ \E ok \in BOOLEAN :
        /\ opened' = IF ok THEN "ok" ELSE "failed"
        /\ presented' = IF ok THEN presented ELSE presented + 1
    /\ pc' = "sleep"
    /\ UNCHANGED <<registered, registration, authorized, session, sleeps,
                   tokenRequests, responses, token_output, dcf_result>>
    /\ UNCHANGED <<start_url, sso_region, inventory, mainVars, listVars, sso_profiles, mergeVars>>

\* lib.rs 92-99: whatever open::that returns, the URI is printed; then the
\* loop is entered at its head.
OpenThat ==
    /\ pc = "open"
    /\ \E ok \in BOOLEAN : opened' = IF ok THEN "ok" ELSE "failed"
    /\ presented' = presented + 1
    /\ pc' = "sleep"
    /\ UNCHANGED <<registered, registration, authorized, session, sleeps,
                   tokenRequests, responses, token_output, dcf_result>>
    /\ UNCHANGED <<start_url, sso_region, inventory, mainVars, listVars, sso_profiles, mergeVars>>

\* lib.rs 99-100: the head of every iteration of the loop.
Sleep ==
    /\ pc = "sleep"
    /\ sleeps' = Saturate(sleeps)
    /\ pc' = "create_token"
    /\ UNCHANGED <<registered, registration, authorized, session, opened,
                   presented, tokenRequests, responses, token_output,
                   dcf_result>>
    /\ UNCHANGED <<start_url, sso_region, inventory, mainVars, listVars, sso_profiles, mergeVars>>

\* The loop with an attempt bound: the third pending response is an error.
CreateTokenBounded ==
    /\ pc = "create_token"
    /\ tokenRequests' = Saturate(tokenRequests)
    /\ \E res \in TokenResponses :
        /\ responses' = Remember(responses, res)
        /\ IF res.kind = "Ok"
           THEN /\ token_output' = res
                /\ pc' = "access_token"
                /\ UNCHANGED dcf_result
           ELSE IF IsPending(res) /\ tokenRequests < 2
           THEN /\ pc' = "sleep"
                /\ UNCHANGED <<token_output, dcf_result>>
           ELSE /\ dcf_result' = Err(ErrorOf(res))
                /\ pc' = "dcf_return"
                /\ UNCHANGED token_output
    /\ UNCHANGED <<registered, registration, authorized, session, opened,
                   presented, sleeps>>
    /\ UNCHANGED <<start_url, sso_region, inventory, mainVars, listVars, sso_profiles, mergeVars>>

\* lib.rs 102-121: one token request and the match on its result.
CreateToken ==
    /\ pc = "create_token"
    /\ tokenRequests' = Saturate(tokenRequests)
    /\ \E res \in TokenResponses :
        /\ responses' = Remember(responses, res)
        /\ IF res.kind = "Ok"
           THEN /\ token_output' = res
                /\ pc' = "access_token"
                /\ UNCHANGED dcf_result
           ELSE IF IsPending(res)
           THEN /\ pc' = "sleep"
                /\ UNCHANGED <<token_output, dcf_result>>
           ELSE /\ dcf_result' = Err(ErrorOf(res))
                /\ pc' = "dcf_return"
                /\ UNCHANGED token_output
    /\ UNCHANGED <<registered, registration, authorized, session, opened,
                   presented, sleeps>>
    /\ UNCHANGED <<start_url, sso_region, inventory, mainVars, listVars, sso_profiles, mergeVars>>

\* lib.rs 123-127
AccessToken ==
    /\ pc = "access_token"
    /\ dcf_result' = IF token_output.access_token = None
                     THEN Err("Token output provided no access token")
                     ELSE Ok(token_output.access_token[1])
    /\ pc' = "dcf_return"
    /\ UNCHANGED <<registered, registration, authorized, session, opened,
                   presented, sleeps, tokenRequests, responses, token_output>>
    /\ UNCHANGED <<start_url, sso_region, inventory, mainVars, listVars, sso_profiles, mergeVars>>

InitIdle ==
    /\ registered = Unset
    /\ registration = <<>>
    /\ authorized = Unset
    /\ session = <<>>
    /\ opened = "untried"
    /\ presented = 0
    /\ sleeps = 0
    /\ tokenRequests = 0
    /\ responses = <<>>
    /\ token_output = Unset
    /\ dcf_result = Unset
    /\ inventory = [accounts |-> MaxAccounts, roles |-> MaxRoles]
    /\ accountsServed = <<>>
    /\ rolesServed = <<>>
    /\ badResponse = Unset
    /\ accMore = TRUE
    /\ roleMore = FALSE
    /\ account = 0
    /\ requests = <<>>
    /\ sso_profiles = <<>>
    /\ list_result = Unset
    /\ ini_map = <<>>
    /\ ini0 = <<>>
    /\ prefix = <<>>
    /\ clean = FALSE
    /\ idx = 0
    /\ merges = 0
    /\ populate = FALSE
    /\ writes = <<>>
    /\ main_result = Unset

InitLister ==
    /\ start_url \in StartUrls
    /\ sso_region \in Regions

InitAuth == pc = "register_client" /\ InitLister /\ InitIdle

NextAuth ==
    \/ RegisterClient
    \/ StartDeviceAuthorization
    \/ OpenThat
    \/ Sleep
    \/ CreateToken
    \/ AccessToken

\* device_code_flow on its own.
SpecAuth == InitAuth /\ [][NextAuth]_vars

\* The thread is never descheduled for good: a sleep ends and a request
\* returns a response or an error.
FairSpecAuth == SpecAuth /\ WF_vars(NextAuth)

(***************************************************************************)
(* Properties of the polling loop                                          *)
(***************************************************************************)
Last(h) == h[Len(h)]

\* The provider's "authorization pending" answer.
Pending == [kind |-> "ServiceError", err |-> "AuthorizationPendingException"]

NumPending(h) == Cardinality({ i \in DOMAIN h : h[i] = Pending })

AllPending(h) == \A i \in DOMAIN h : h[i] = Pending

\* responses is pending^n followed by one answer that is not pending.
PendingsThenFinal(h) ==
    /\ h # <<>>
    /\ Last(h) # Pending
    /\ \A i \in 1..(Len(h) - 1) : h[i] = Pending

\* The counters and the history have not saturated: they are exact.
Exact == tokenRequests < MaxPolls /\ sleeps < MaxPolls

InLoop == pc \in {"sleep", "create_token"}

LoopExited == responses # <<>> /\ pc \in {"access_token", "dcf_return"}

\* C1, as state invariant: the loop goes on only while every response so
\* far was "authorization pending"; a success has ended the loop with that
\* response (and the flow returns its access token); any other error has
\* ended the loop and is the error returned; "authorization pending" is
\* never the error returned.
C1_LoopState ==
    /\ (InLoop => AllPending(responses))
    /\ (responses # <<>> /\ Last(responses).kind = "Ok"
          => /\ pc \in {"access_token", "dcf_return"}
             /\ token_output = Last(responses)
             /\ (pc = "dcf_return" /\ token_output.access_token # None
                   => dcf_result = Ok(Last(responses).access_token[1])))
    /\ (responses # <<>> /\ Last(responses).kind # "Ok"
                         /\ Last(responses) # Pending
          => /\ pc = "dcf_return"
             /\ dcf_result = Err(ErrorOf(Last(responses))))
    /\ dcf_result # Err("AuthorizationPendingException")

\* C1: in the token polling loop only "authorization pending" leads to
\* another token request; a success ends the loop with that response's
\* access token, any other service or transport error ends it with that
\* error, no token request follows a success or such an error, and
\* "authorization pending" is never the error returned.
C1_OnlyPendingContinues ==
    /\ []C1_LoopState
    /\ [][ (responses # <<>> /\ Last(responses) # Pending)
             => (pc' # "create_token" /\ UNCHANGED <<tokenRequests, responses>>)
         ]_vars

\* C1's case: two pendings, then a denial, which is what the caller gets.
C1_Witness ==
    /\ pc = "dcf_return"
    /\ responses = <<Pending, Pending,
                     [kind |-> "ServiceError", err |-> "AccessDeniedException"]>>
    /\ dcf_result = Err("AccessDeniedException")

\* C2: for every n, once the provider has answered n "authorization
\* pending" the loop is still polling, and once it has answered n pendings
\* and then a success carrying T, exactly n+1 token requests were issued,
\* no more follow, and device_code_flow returns T.
C2_PendingsThenSuccess ==
    /\ (Exact /\ responses # <<>> /\ AllPending(responses)
          => InLoop /\ dcf_result = Unset)
    /\ (Exact /\ PendingsThenFinal(responses) /\ Last(responses).kind = "Ok"
              /\ Last(responses).access_token # None
          => /\ tokenRequests = NumPending(responses) + 1
             /\ pc \in {"access_token", "dcf_return"}
             /\ (pc = "dcf_return"
                   => dcf_result = Ok(Last(responses).access_token[1])))

\* C2's case, n = 2: three requests, the result is "T".
C2_Witness ==
    /\ pc = "dcf_return"
    /\ responses = <<Pending, Pending, [kind |-> "Ok", access_token |-> Some("T")]>>
    /\ tokenRequests = 3
    /\ dcf_result = Ok("T")

\* C3 as the spec states it: the loop sleeps only after a pending response,
\* so the sleeps are as many as the pending responses and the first
\* request follows no sleep.
C3_SleepOnlyAfterPending ==
    Exact => sleeps = NumPending(responses)

\* C3, amended: the 1000 ms sleep opens every iteration of the loop, so
\* every token request, the first included, directly follows one sleep and
\* the sleeps are as many as the token requests: n+1 sleeps for n pendings
\* followed by a success or a terminal error.
C3_SleepBeforeEveryRequest ==
    /\ (Exact /\ pc = "create_token" => sleeps = tokenRequests + 1)
    /\ (Exact /\ pc # "create_token" => sleeps = tokenRequests)
    /\ (sleeps = 0 => tokenRequests = 0 /\ responses = <<>>)
    /\ (Exact /\ PendingsThenFinal(responses)
          => sleeps = NumPending(responses) + 1)

\* C3's case: one pending, then a success: two requests and two sleeps.
C3_Witness ==
    /\ responses = <<Pending, [kind |-> "Ok", access_token |-> Some("T")]>>
    /\ sleeps = 2
    /\ tokenRequests = 2

\* C4: the loop has no attempt bound.  It is left only at a response that
\* is not "authorization pending", it is left at the first such response,
\* and a run in which device_code_flow never returns sends token requests
\* again and again.
C4_NoAttemptBound ==
    /\ [](LoopExited => Last(responses) # Pending)
    /\ [](responses # <<>> /\ Last(responses) # Pending => LoopExited)
    /\ ([]<><<CreateToken>>_vars) \/ <>(pc = "dcf_return")

\* C4's case: MaxPolls pending answers and the loop is about to ask again.
C4_Witness ==
    /\ pc = "create_token"
    /\ tokenRequests = MaxPolls
    /\ Len(responses) = MaxPolls
    /\ AllPending(responses)

(***************************************************************************)
(* list_sso_profiles (lib.rs 131-181)                                      *)
(***************************************************************************)
DevTeam == <<"D", "e", "v", " ", "T", "e", "a", "m">>

Prod == <<"P", "r", "o", "d">>

Admin == <<"A", "d", "m", "i", "n">>

\* AccountInfo items of a list_accounts page: both fields are optional, and
\* a present field may be the empty string.
AccountInfos ==
    { [account_id |-> Some("111"), account_name |-> Some(DevTeam)],
      [account_id |-> Some("222"), account_name |-> Some(Prod)],
      [account_id |-> Some(""),    account_name |-> Some(<<>>)],
      [account_id |-> None,        account_name |-> Some(Prod)],
      [account_id |-> Some("111"), account_name |-> None] }

\* RoleInfo items of a list_account_roles page.
RoleInfos ==
    { [role_name |-> Some(Admin)], [role_name |-> Some(<<>>)],
      [role_name |-> None] }

SeqsUpTo(S, n) == UNION { [1..k -> S] : k \in 0..n }

\* A list_accounts page with room for `room` more items: its items (the
\* paginator's items() flattens them) and whether a next token came with
\* it; or an error.  A page that announces a successor is not empty.
AccountPages(room) ==
    { [kind |-> "Ok", items |-> it, more |-> m] :
          it \in SeqsUpTo(AccountInfos, room),
          m \in BOOLEAN }
    \cup { [kind |-> "Err", error |-> "ListAccountsError"] }

\* A list_account_roles page: its optional role_list and whether a next
\* token came with it; or an error.
RolePages(room) ==
    { [kind |-> "Ok", role_list |-> Some(it), more |-> m] :
          it \in SeqsUpTo(RoleInfos, room),
          m \in BOOLEAN }
    \cup { [kind |-> "Ok", role_list |-> None, more |-> FALSE],
           [kind |-> "Err", error |-> "ListAccountRolesError"] }

\* A page announces a successor only if it holds an item and the provider
\* has more to serve.
Paged(res, room) ==
    res.kind = "Ok" /\ res.more => res.items # <<>> /\ Len(res.items) < room

PagedRoles(res, room) ==
    res.kind = "Ok" /\ res.more =>
        res.role_list # None /\ res.role_list[1] # <<>>
                             /\ Len(res.role_list[1]) < room

RECURSIVE Served(_)
\* The number of role items the provider has served so far.
Served(rs) == IF rs = <<>> THEN 0 ELSE Len(Head(rs)) + Served(Tail(rs))

\* lib.rs 169-175
SSOProfile(a, role) ==
    [account_id   |-> a.account_id[1],
     account_name |-> a.account_name[1],
     role_name    |-> role.role_name[1],
     sso_region   |-> sso_region,
     start_url    |-> start_url]

RECURSIVE RolesLoopSkip(_, _, _)
\* A role without a name is skipped instead of failing the discovery.
RolesLoopSkip(profiles, a, roles) ==
    IF roles = <<>>
    THEN [sso_profiles |-> profiles, err |-> None]
    ELSE IF Head(roles).role_name = None
    THEN RolesLoopSkip(profiles, a, Tail(roles))
    ELSE RolesLoopSkip(Append(profiles, SSOProfile(a, Head(roles))),
                       a, Tail(roles))

RECURSIVE RolesLoopFront(_, _, _)
\* The profile is inserted at the front of the list instead of pushed.
RolesLoopFront(profiles, a, roles) ==
    IF roles = <<>>
    THEN [sso_profiles |-> profiles, err |-> None]
    ELSE IF Head(roles).role_name = None
    THEN [sso_profiles |-> profiles,
          err |-> Some("Role does not have a name")]
    ELSE RolesLoopFront(<<SSOProfile(a, Head(roles))>> \o profiles,
                        a, Tail(roles))

RECURSIVE RolesLoop(_, _, _)
\* lib.rs 161-176: the for loop over one page's role list, for account a.
RolesLoop(profiles, a, roles) ==
    IF roles = <<>>
    THEN [sso_profiles |-> profiles, err |-> None]
    ELSE IF Head(roles).role_name = None
    THEN [sso_profiles |-> profiles,
          err |-> Some("Role does not have a name")]
    ELSE RolesLoop(Append(profiles, SSOProfile(a, Head(roles))),
                   a, Tail(roles))

\* lib.rs 144 (accounts.next() with the buffered items used up): one
\* list_accounts request, and the `?` of line 145 when it failed.
ListAccountsPage ==
    /\ pc = "accounts_next"
    /\ account = Len(accountsServed)
    /\ accMore
    /\ requests' = Append(requests, <<"list_accounts">>)
    /\ \E res \in AccountPages(inventory.accounts - Len(accountsServed)) :
        /\ Paged(res, inventory.accounts - Len(accountsServed))
        /\ IF res.kind = "Err"
           THEN /\ badResponse' = res
                /\ list_result' = Err(res.error)
                /\ pc' = "lsp_return"
                /\ UNCHANGED <<accountsServed, rolesServed, accMore>>
           ELSE /\ accountsServed' = accountsServed \o res.items
                /\ rolesServed' =
                       rolesServed \o [i \in 1..Len(res.items) |-> <<>>]
                /\ accMore' = res.more
                /\ UNCHANGED <<badResponse, list_result, pc>>
    /\ UNCHANGED <<roleMore, account, sso_profiles>>
    /\ UNCHANGED <<start_url, sso_region, inventory, mainVars, authVars, mergeVars>>

\* lib.rs 144-158: the next account is yielded, its id and name are taken,
\* and the role paginator for it is built.
NextAccount ==
    /\ pc = "accounts_next"
    /\ account < Len(accountsServed)
    /\ account' = account + 1
    /\ roleMore' = FALSE
    /\ LET a == accountsServed[account + 1] IN
        IF a.account_id = None
        THEN /\ list_result' = Err("Account id is missing")
             /\ pc' = "lsp_return"
        ELSE IF a.account_name = None
        THEN /\ list_result' = Err("Account is missing its name")
             /\ pc' = "lsp_return"
        ELSE /\ pc' = "roles_next"
             /\ UNCHANGED list_result
    /\ UNCHANGED <<accountsServed, rolesServed, badResponse, accMore,
                   requests, sso_profiles>>
    /\ UNCHANGED <<start_url, sso_region, inventory, mainVars, authVars, mergeVars>>

\* The error of a role page ends the listing of this account's roles, and
\* the discovery goes on with the next account.
ListAccountRolesPageLenient ==
    /\ pc = "roles_next"
    /\ LET a == accountsServed[account]
           room == inventory.roles - Served(rolesServed) IN
        /\ requests' = Append(requests,
                              <<"list_account_roles", a.account_id[1]>>)
        /\ \E res \in RolePages(room) :
            /\ PagedRoles(res, room)
            /\ IF res.kind = "Err"
               THEN /\ badResponse' = res
                    /\ pc' = "accounts_next"
                    /\ UNCHANGED <<rolesServed, sso_profiles, list_result,
                                   roleMore>>
               ELSE IF res.role_list = None
               THEN /\ badResponse' = res
                    /\ list_result' = Err("Role list not available")
                    /\ pc' = "lsp_return"
                    /\ roleMore' = res.more
                    /\ UNCHANGED <<rolesServed, sso_profiles>>
               ELSE LET out == RolesLoop(sso_profiles, a, res.role_list[1]) IN
                    /\ rolesServed' =
                           [rolesServed EXCEPT ![account] = @ \o res.role_list[1]]
                    /\ sso_profiles' = out.sso_profiles
                    /\ roleMore' = res.more
                    /\ IF out.err # None
                       THEN /\ list_result' = Err(out.err[1])
                            /\ pc' = "lsp_return"
                       ELSE /\ pc' = IF res.more THEN "roles_next"
                                                 ELSE "accounts_next"
                            /\ UNCHANGED list_result
                    /\ UNCHANGED badResponse
    /\ UNCHANGED <<accountsServed, accMore, account>>
    /\ UNCHANGED <<start_url, sso_region, inventory, mainVars, authVars, mergeVars>>

\* Only the first page of an account's roles is fetched.
ListAccountRolesPageOnce ==
    /\ pc = "roles_next"
    /\ LET a == accountsServed[account]
           room == inventory.roles - Served(rolesServed) IN
        /\ requests' = Append(requests,
                              <<"list_account_roles", a.account_id[1]>>)
        /\ \E res \in RolePages(room) :
            /\ PagedRoles(res, room)
            /\ IF res.kind = "Err"
               THEN /\ badResponse' = res
                    /\ list_result' = Err(res.error)
                    /\ pc' = "lsp_return"
                    /\ UNCHANGED <<rolesServed, sso_profiles, roleMore>>
               ELSE IF res.role_list = None
               THEN /\ badResponse' = res
                    /\ list_result' = Err("Role list not available")
                    /\ pc' = "lsp_return"
                    /\ roleMore' = res.more
                    /\ UNCHANGED <<rolesServed, sso_profiles>>
               ELSE LET out == RolesLoop(sso_profiles, a, res.role_list[1]) IN
                    /\ rolesServed' =
                           [rolesServed EXCEPT ![account] = @ \o res.role_list[1]]
                    /\ sso_profiles' = out.sso_profiles
                    /\ roleMore' = res.more
                    /\ IF out.err # None
                       THEN /\ list_result' = Err(out.err[1])
                            /\ pc' = "lsp_return"
                       ELSE /\ pc' = "accounts_next"
                            /\ UNCHANGED list_result
                    /\ UNCHANGED badResponse
    /\ UNCHANGED <<accountsServed, accMore, account>>
    /\ UNCHANGED <<start_url, sso_region, inventory, mainVars, authVars, mergeVars>>

\* lib.rs 160-177: one list_account_roles request for the current account
\* and the processing of the page it returned.
ListAccountRolesPage ==
    /\ pc = "roles_next"
    /\ LET a == accountsServed[account]
           room == inventory.roles - Served(rolesServed) IN
        /\ requests' = Append(requests,
                              <<"list_account_roles", a.account_id[1]>>)
        /\ \E res \in RolePages(room) :
            /\ PagedRoles(res, room)
            /\ IF res.kind = "Err"
               THEN /\ badResponse' = res
                    /\ list_result' = Err(res.error)
                    /\ pc' = "lsp_return"
                    /\ UNCHANGED <<rolesServed, sso_profiles, roleMore>>
               ELSE IF res.role_list = None
               THEN /\ badResponse' = res
                    /\ list_result' = Err("Role list not available")
                    /\ pc' = "lsp_return"
                    /\ roleMore' = res.more
                    /\ UNCHANGED <<rolesServed, sso_profiles>>
               ELSE LET out == RolesLoop(sso_profiles, a, res.role_list[1]) IN
                    /\ rolesServed' =
                           [rolesServed EXCEPT ![account] = @ \o res.role_list[1]]
                    /\ sso_profiles' = out.sso_profiles
                    /\ roleMore' = res.more
                    /\ IF out.err # None
                       THEN /\ list_result' = Err(out.err[1])
                            /\ pc' = "lsp_return"
                       ELSE /\ pc' = IF res.more THEN "roles_next"
                                                 ELSE "accounts_next"
                            /\ UNCHANGED list_result
                    /\ UNCHANGED badResponse
    /\ UNCHANGED <<accountsServed, accMore, account>>
    /\ UNCHANGED <<start_url, sso_region, inventory, mainVars, authVars, mergeVars>>

\* lib.rs 144, 180: the account stream has ended.
AccountsDone ==
    /\ pc = "accounts_next"
    /\ account = Len(accountsServed)
    /\ ~accMore
    /\ list_result' = Ok(sso_profiles)
    /\ pc' = "lsp_return"
    /\ UNCHANGED <<accountsServed, rolesServed, badResponse, accMore,
                   roleMore, account, requests, sso_profiles>>
    /\ UNCHANGED <<start_url, sso_region, inventory, mainVars, authVars, mergeVars>>

\* lib.rs 131-142: an access token in hand, nothing listed yet.
InitDiscover == pc = "accounts_next" /\ InitLister /\ InitIdle

NextDiscover ==
    \/ ListAccountsPage
    \/ NextAccount
    \/ ListAccountRolesPage
    \/ AccountsDone

\* list_sso_profiles on its own.
SpecDiscover == InitDiscover /\ [][NextDiscover]_vars

(***************************************************************************)
(* Properties of the discovery                                             *)
(***************************************************************************)
\* The value of an optional field, d when it is absent.
Val(o, d) == IF o = None THEN d ELSE o[1]

RECURSIVE ProfilesOf(_, _)
\* One record per role the provider returned for account a, in its order.
ProfilesOf(a, roles) ==
    IF roles = <<>> THEN <<>>
    ELSE <<[account_id   |-> Val(a.account_id, ""),
            account_name |-> Val(a.account_name, <<>>),
            role_name    |-> Val(Head(roles).role_name, <<>>),
            sso_region   |-> sso_region,
            start_url    |-> start_url]>> \o ProfilesOf(a, Tail(roles))

RECURSIVE Enumeration(_)
\* The first k accounts the provider returned, each with its roles.
Enumeration(k) ==
    IF k = 0 THEN <<>>
    ELSE Enumeration(k - 1) \o ProfilesOf(accountsServed[k], rolesServed[k])

\* The account that was yielded last lacks its id, or its name.
AccountInvalid ==
    /\ account >= 1
    /\ \/ accountsServed[account].account_id = None
       \/ accountsServed[account].account_name = None

\* A role the provider returned lacks its name.
RoleInvalid ==
    \E k \in DOMAIN rolesServed :
        \E j \in DOMAIN rolesServed[k] : rolesServed[k][j].role_name = None

\* A page fetch or a validation has failed.
DiscoveryFailed == badResponse # Unset \/ AccountInvalid \/ RoleInvalid

\* C5, as state invariant: a failed page fetch, an absent role list or an
\* absent field has ended list_sso_profiles with an error, and an Ok result
\* is the enumeration of everything the provider returned, both streams
\* used up.
C5_State ==
    /\ (badResponse.kind = "Err"
          => pc = "lsp_return" /\ list_result = Err(badResponse.error))
    /\ (badResponse.kind = "Ok"
          => pc = "lsp_return" /\ list_result = Err("Role list not available"))
    /\ (AccountInvalid \/ RoleInvalid
          => pc = "lsp_return" /\ list_result.kind = "Err")
    /\ (list_result.kind = "Ok"
          => /\ ~DiscoveryFailed
             /\ account = Len(accountsServed)
             /\ ~accMore
             /\ Len(list_result.value) = Served(rolesServed)
             /\ list_result.value = Enumeration(Len(accountsServed)))

\* C5: list_sso_profiles returns the complete list or an error, never a
\* partial list: a failed account page, a failed role page or a failed
\* validation makes the result that error, whatever was accumulated, and no
\* further page is fetched.
C5_AllOrNothing ==
    /\ []C5_State
    /\ [][DiscoveryFailed => UNCHANGED <<requests, list_result>>]_vars

\* C5's case: the role listing of the 2nd of 3 accounts fails after the
\* 1st account has produced a profile.
C5_Witness ==
    /\ Len(accountsServed) = 3
    /\ account = 2
    /\ badResponse = [kind |-> "Err", error |-> "ListAccountRolesError"]
    /\ sso_profiles # <<>>
    /\ list_result = Err("ListAccountRolesError")

\* C6: a successful discovery returns exactly the provider's accounts in
\* their order, each with its roles in their order, nothing sorted, merged
\* or left out, every record carrying the id and name of the account its
\* role was listed for and the lister's start URL and region; and until
\* then the accumulated list is that enumeration so far.
C6_ProviderOrder ==
    /\ (list_result.kind = "Ok"
          => list_result.value = Enumeration(Len(accountsServed)))
    /\ (list_result.kind # "Err"
          => sso_profiles = Enumeration(Len(accountsServed)))

\* C6's case: two accounts over two pages, a role each, returned in the
\* provider's order.
C6_Witness ==
    /\ list_result.kind = "Ok"
    /\ Len(requests) >= 4
    /\ Len(list_result.value) = 2
    /\ list_result.value[1].account_id # list_result.value[2].account_id
    /\ list_result.value[1].role_name # list_result.value[2].role_name

\* C7 as the spec states it: no returned profile has an empty account_id,
\* account_name or role_name.
C7_NoEmptyField ==
    list_result.kind = "Ok" =>
        \A i \in DOMAIN list_result.value :
            /\ list_result.value[i].account_id # ""
            /\ list_result.value[i].account_name # <<>>
            /\ list_result.value[i].role_name # <<>>

\* C7, amended: no returned profile is built from an absent field: an
\* account without id, an account without name and a role without name
\* each fail the discovery with their error, and no record is skipped.  A
\* field that is present but empty is not rejected.
C7_NoAbsentField ==
    /\ (account >= 1 /\ accountsServed[account].account_id = None
          => pc = "lsp_return" /\ list_result = Err("Account id is missing"))
    /\ (account >= 1 /\ accountsServed[account].account_id # None
                     /\ accountsServed[account].account_name = None
          => pc = "lsp_return"
             /\ list_result = Err("Account is missing its name"))
    /\ (RoleInvalid
          => pc = "lsp_return"
             /\ list_result = Err("Role does not have a name"))
    /\ (list_result.kind = "Ok"
          => /\ \A k \in DOMAIN accountsServed :
                    /\ accountsServed[k].account_id # None
                    /\ accountsServed[k].account_name # None
             /\ ~RoleInvalid
             /\ Len(list_result.value) = Served(rolesServed))

\* C7's case: an account with empty id and name has produced a profile,
\* and the next account, whose name is absent, fails the discovery.
C7_Witness ==
    /\ list_result = Err("Account is missing its name")
    /\ \E i \in DOMAIN sso_profiles :
           sso_profiles[i].account_id = "" /\ sso_profiles[i].account_name = <<>>

(***************************************************************************)
(* AwsConfigMerger::merge (lib.rs 184-232)                                 *)
(* The document map (Ini::get_mut_map, an IndexMap) is the sequence of its *)
(* <<section name, body>> entries in document order; a body is the         *)
(* sequence of its <<key, optional value>> entries.                        *)
(***************************************************************************)
\* The input list holds at most MaxProfiles profiles, the document at most
\* MaxSections sections before the merge, and merge is called at most
\* MaxMerges times on the same document.
MaxProfiles == 3

MaxSections == 3

MaxMerges == 2

Viewer == <<"V", "i", "e", "w", "e", "r">>

DevHyphenTeam == <<"D", "e", "v", "-", "T", "e", "a", "m">>

\* --prefix (main.rs 20-22, 34): none, or "a-".
Prefixes == { <<>>, <<"a", "-">> }

\* The profiles a discovery may hand to merge.  The first two are different
\* accounts whose names differ by a space against a hyphen.
Profiles(url, region) ==
    { [account_id |-> "111", account_name |-> DevTeam, role_name |-> Admin,
       sso_region |-> region, start_url |-> url],
      [account_id |-> "222", account_name |-> DevHyphenTeam,
       role_name |-> Admin, sso_region |-> region, start_url |-> url],
      [account_id |-> "333", account_name |-> Prod, role_name |-> Viewer,
       sso_region |-> region, start_url |-> url] }

\* str::starts_with (lib.rs 201)
StartsWith(str, pat) ==
    Len(pat) <= Len(str) /\ SubSeq(str, 1, Len(pat)) = pat

\* str::replace of one character by another (lib.rs 208)
Replace(str, from, to) ==
    [i \in 1..Len(str) |-> IF str[i] = from THEN to ELSE str[i]]

\* The prefix is forgotten.
prefix_name_none(profile_name) == profile_name

\* lib.rs 225-227
prefix_name(profile_name) == prefix \o profile_name

\* lib.rs 229-231
section_name(profile_name) ==
    <<"p", "r", "o", "f", "i", "l", "e", " ">> \o profile_name

\* The spaces of the account name are kept.
bare_profile_name_spaces(sso_profile) ==
    sso_profile.account_name \o <<"-">> \o sso_profile.role_name

\* lib.rs 208
bare_profile_name(sso_profile) ==
    Replace(sso_profile.account_name, " ", "-") \o <<"-">>
        \o sso_profile.role_name

\* lib.rs 16-26: From<&SSOProfile> for IndexMap<String, Option<String>>
SectionFrom(sso_profile) ==
    << <<"sso_start_url",  Some(sso_profile.start_url)>>,
       <<"sso_region",     Some(sso_profile.sso_region)>>,
       <<"sso_account_id", Some(sso_profile.account_id)>>,
       <<"sso_role_name",  Some(sso_profile.role_name)>> >>

\* IndexMap::keys
Keys(map) == [i \in 1..Len(map) |-> map[i][1]]

\* IndexMap::contains_key (lib.rs 213)
ContainsKey(map, key) == \E i \in 1..Len(map) : map[i][1] = key

\* IndexMap::get_index_of
IndexOf(map, key) == CHOOSE i \in 1..Len(map) : map[i][1] = key

\* IndexMap::remove (lib.rs 202, 214), which is swap_remove: the last
\* entry takes the place of the removed one.
Remove(map, key) ==
    IF ~ContainsKey(map, key) THEN map
    ELSE LET i == IndexOf(map, key)
             n == Len(map)
         IN [j \in 1..(n - 1) |-> IF j = i THEN map[n] ELSE map[j]]

\* IndexMap::insert (lib.rs 219): a new key is appended, an existing key
\* keeps its place and gets the new value.
Insert(map, key, value) ==
    IF ContainsKey(map, key)
    THEN [map EXCEPT ![IndexOf(map, key)] = <<key, value>>]
    ELSE Append(map, <<key, value>>)

RECURSIVE CleanLoopFirst(_, _, _)
\* The loop ends at the first section it removes.
CleanLoopFirst(map, keys, pat) ==
    IF keys = <<>> THEN map
    ELSE IF StartsWith(Head(keys), pat)
    THEN Remove(map, Head(keys))
    ELSE CleanLoopFirst(map, Tail(keys), pat)

RECURSIVE CleanLoop(_, _, _)
\* lib.rs 200-204: the loop over the keys collected before it.
CleanLoop(map, keys, pat) ==
    IF keys = <<>> THEN map
    ELSE IF StartsWith(Head(keys), pat)
    THEN CleanLoop(Remove(map, Head(keys)), Tail(keys), pat)
    ELSE CleanLoop(map, Tail(keys), pat)

\* lib.rs 191-205: the clean step, when asked for.
MergeClean ==
    /\ pc = "merge_clean"
    /\ ini_map' =
           IF clean
           THEN CleanLoop(ini_map, Keys(ini_map),
                          section_name(prefix_name(<<>>)))
           ELSE ini_map
    /\ idx' = 0
    /\ pc' = "merge_loop"
    /\ UNCHANGED <<ini0, prefix, clean, merges, sso_profiles>>
    /\ UNCHANGED <<start_url, sso_region, inventory, mainVars, authVars, listVars>>

\* A section that exists is left as it is.
MergeProfileKeep ==
    /\ pc = "merge_loop"
    /\ idx < Len(sso_profiles)
    /\ LET sso_profile == sso_profiles[idx + 1]
           name == section_name(prefix_name(bare_profile_name(sso_profile)))
       IN ini_map' = IF ContainsKey(ini_map, name) THEN ini_map
                     ELSE Insert(ini_map, name, SectionFrom(sso_profile))
    /\ idx' = idx + 1
    /\ UNCHANGED <<pc, ini0, prefix, clean, merges, sso_profiles>>
    /\ UNCHANGED <<start_url, sso_region, inventory, mainVars, authVars, listVars>>

\* The remove of the collision step is left out: insert alone overwrites
\* the section where it stands.
MergeProfileInPlace ==
    /\ pc = "merge_loop"
    /\ idx < Len(sso_profiles)
    /\ LET sso_profile == sso_profiles[idx + 1]
           name == section_name(prefix_name(bare_profile_name(sso_profile)))
       IN ini_map' = Insert(ini_map, name, SectionFrom(sso_profile))
    /\ idx' = idx + 1
    /\ UNCHANGED <<pc, ini0, prefix, clean, merges, sso_profiles>>
    /\ UNCHANGED <<start_url, sso_region, inventory, mainVars, authVars, listVars>>

\* The new content is added to the section that exists: the keys the
\* profile does not set stay.
MergeProfileExtend ==
    /\ pc = "merge_loop"
    /\ idx < Len(sso_profiles)
    /\ LET sso_profile == sso_profiles[idx + 1]
           name == section_name(prefix_name(bare_profile_name(sso_profile)))
           fresh == SectionFrom(sso_profile)
           stays(e) == \A j \in 1..Len(fresh) : fresh[j][1] # e[1]
           body == IF ContainsKey(ini_map, name)
                   THEN SelectSeq(ini_map[IndexOf(ini_map, name)][2], stays)
                            \o fresh
                   ELSE fresh
       IN ini_map' = Insert(Remove(ini_map, name), name, body)
    /\ idx' = idx + 1
    /\ UNCHANGED <<pc, ini0, prefix, clean, merges, sso_profiles>>
    /\ UNCHANGED <<start_url, sso_region, inventory, mainVars, authVars, listVars>>

\* lib.rs 207-220: one iteration of the loop over sso_profiles.
MergeProfile ==
    /\ pc = "merge_loop"
    /\ idx < Len(sso_profiles)
    /\ LET sso_profile == sso_profiles[idx + 1]
           name == section_name(prefix_name(bare_profile_name(sso_profile)))
           removed == IF ContainsKey(ini_map, name)
                      THEN Remove(ini_map, name) ELSE ini_map
       IN ini_map' = Insert(removed, name, SectionFrom(sso_profile))
    /\ idx' = idx + 1
    /\ UNCHANGED <<pc, ini0, prefix, clean, merges, sso_profiles>>
    /\ UNCHANGED <<start_url, sso_region, inventory, mainVars, authVars, listVars>>

\* lib.rs 207, 222: the list is used up.
MergeReturn ==
    /\ pc = "merge_loop"
    /\ idx = Len(sso_profiles)
    /\ pc' = "merge_return"
    /\ merges' = merges + 1
    /\ UNCHANGED <<ini_map, ini0, prefix, clean, idx, sso_profiles>>
    /\ UNCHANGED <<start_url, sso_region, inventory, mainVars, authVars, listVars>>

\* lib.rs 190: merge is called again with the same list on the document
\* the previous call left.
MergeAgain ==
    /\ pc = "merge_return"
    /\ merges < MaxMerges
    /\ pc' = "merge_clean"
    /\ UNCHANGED <<ini_map, ini0, prefix, clean, idx, merges, sso_profiles>>
    /\ UNCHANGED <<start_url, sso_region, inventory, mainVars, authVars, listVars>>

\* Section names a document may hold before the merge: discovered-profile
\* sections made without prefix, with prefix "a-" and with prefix "b-",
\* and a section that is no profile.
ExistingNames ==
    { section_name(<<"D", "e", "v", "-", "T", "e", "a", "m", "-",
                     "A", "d", "m", "i", "n">>),
      section_name(<<"a", "-", "D", "e", "v", "-", "T", "e", "a", "m", "-",
                     "A", "d", "m", "i", "n">>),
      section_name(<<"a", "-", "P", "r", "o", "d", "-",
                     "V", "i", "e", "w", "e", "r">>),
      section_name(<<"b", "-", "P", "r", "o", "d", "-",
                     "V", "i", "e", "w", "e", "r">>),
      <<"o", "t", "h", "e", "r", "-", "s", "e", "c", "t", "i", "o", "n">> }

\* The body of a section the document holds before the merge: one key,
\* whose value tells the sections apart.
ExistingBody(name) == << <<"comment", Some(name)>> >>

\* The documents Ini::load may have produced: sections in any order, no
\* name twice.
Documents ==
    { [i \in DOMAIN names |-> <<names[i], ExistingBody(names[i])>>] :
        names \in { ns \in SeqsUpTo(ExistingNames, MaxSections) :
                      \A i, j \in DOMAIN ns : i # j => ns[i] # ns[j] } }

\* main.rs 33-38, 54: a merger, a document and a list of profiles.
InitMerge ==
    /\ pc = "merge_clean"
    /\ InitLister
    /\ registered = Unset
    /\ registration = <<>>
    /\ authorized = Unset
    /\ session = <<>>
    /\ opened = "untried"
    /\ presented = 0
    /\ sleeps = 0
    /\ tokenRequests = 0
    /\ responses = <<>>
    /\ token_output = Unset
    /\ dcf_result = Unset
    /\ inventory = [accounts |-> MaxAccounts, roles |-> MaxRoles]
    /\ accountsServed = <<>>
    /\ rolesServed = <<>>
    /\ badResponse = Unset
    /\ accMore = TRUE
    /\ roleMore = FALSE
    /\ account = 0
    /\ requests = <<>>
    /\ list_result = Unset
    /\ sso_profiles \in SeqsUpTo(Profiles(start_url, sso_region), MaxProfiles)
    /\ ini_map \in Documents
    /\ ini0 = ini_map
    /\ prefix \in Prefixes
    /\ clean \in BOOLEAN
    /\ idx = 0
    /\ merges = 0
    /\ populate = FALSE
    /\ writes = <<>>
    /\ main_result = Unset

NextMerge ==
    \/ MergeClean
    \/ MergeProfile
    \/ MergeReturn
    \/ MergeAgain

\* merge on its own.
SpecMerge == InitMerge /\ [][NextMerge]_vars

(***************************************************************************)
(* main (main.rs 30-73) and SSOProfilesLister::list (lib.rs 42-53)         *)
(***************************************************************************)
\* Args::parse (main.rs 16-26, 31-36): no flag; --populate; --populate
\* with --prefix a- and --clean.
CommandLines ==
    { [populate |-> FALSE, prefix |-> <<>>, clean |-> FALSE],
      [populate |-> TRUE,  prefix |-> <<>>, clean |-> FALSE],
      [populate |-> TRUE,  prefix |-> <<"a", "-">>, clean |-> TRUE] }

\* What main.rs 42-50 may find: no home directory, no config file, a file
\* that does not load, or a file with a stale section of prefix "a-" and a
\* section that is no profile.
ConfigFiles ==
    { [kind |-> "NoHome"], [kind |-> "Absent"],
      [kind |-> "LoadError", error |-> "config file does not parse"] }
    \cup { [kind |-> "Loaded", document |-> d] :
               d \in { doc \in Documents :
                          Keys(doc) =
                              <<section_name(<<"a", "-", "P", "r", "o", "d", "-",
                                               "V", "i", "e", "w", "e", "r">>),
                                <<"o", "t", "h", "e", "r", "-",
                                  "s", "e", "c", "t", "i", "o", "n">> >> } }

\* main.rs 38-50: the empty document, and with --populate the config file
\* loaded into it; then list_sso_profiles is called (main.rs 52, 58, 68-70).
Main ==
    /\ pc = "main"
    /\ IF populate
       THEN \E f \in ConfigFiles :
               IF f.kind = "NoHome"
               THEN /\ main_result' =
                           Err("Cannot resolve AWS config file path")
                    /\ pc' = "exit"
                    /\ UNCHANGED <<ini_map, ini0>>
               ELSE IF f.kind = "Absent"
               THEN /\ pc' = "register_client"
                    /\ UNCHANGED <<ini_map, ini0, main_result>>
               ELSE IF f.kind = "LoadError"
               THEN /\ main_result' = Err(f.error)
                    /\ pc' = "exit"
                    /\ UNCHANGED <<ini_map, ini0>>
               ELSE /\ ini_map' = f.document
                    /\ ini0' = f.document
                    /\ pc' = "register_client"
                    /\ UNCHANGED main_result
       ELSE /\ pc' = "register_client"
            /\ UNCHANGED <<ini_map, ini0, main_result>>
    /\ UNCHANGED <<prefix, clean, idx, merges, populate, writes>>
    /\ UNCHANGED <<start_url, sso_region, inventory, authVars, listVars, sso_profiles>>

\* lib.rs 48: device_code_flow has returned.  Its locals are dropped, and
\* with them what was recorded of the call; its error is the error of list,
\* of list_sso_profiles (main.rs 70) and of main (main.rs 52, 58); its
\* access token is what list goes on with.
ListDeviceCodeFlow ==
    /\ pc = "dcf_return"
    /\ IF dcf_result.kind = "Err"
       THEN /\ main_result' = Err(dcf_result.error)
            /\ pc' = "exit"
       ELSE /\ pc' = "accounts_next"
            /\ UNCHANGED main_result
    /\ registered' = Unset
    /\ registration' = <<>>
    /\ authorized' = Unset
    /\ session' = <<>>
    /\ opened' = "untried"
    /\ presented' = 0
    /\ sleeps' = 0
    /\ tokenRequests' = 0
    /\ responses' = <<>>
    /\ token_output' = Unset
    /\ UNCHANGED <<dcf_result, populate, writes>>
    /\ UNCHANGED <<start_url, sso_region, inventory, listVars, sso_profiles, mergeVars>>

\* An error of the discovery is dropped and what was collected is merged.
ListProfilesPartial ==
    /\ pc = "lsp_return"
    /\ pc' = "merge_clean"
    /\ accountsServed' = <<>>
    /\ rolesServed' = <<>>
    /\ badResponse' = Unset
    /\ accMore' = TRUE
    /\ roleMore' = FALSE
    /\ account' = 0
    /\ requests' = <<>>
    /\ UNCHANGED <<sso_profiles, main_result>>
    /\ UNCHANGED <<list_result, populate, writes>>
    /\ UNCHANGED <<start_url, sso_region, inventory, authVars, mergeVars>>

\* lib.rs 50-52, main.rs 70-72 and 52-54 (58-60): list_sso_profiles has
\* returned.  Its locals are dropped, and with them what was recorded of
\* the call; its error is the error of main, the list it returned is
\* handed to merge.
ListProfiles ==
    /\ pc = "lsp_return"
    /\ IF list_result.kind = "Err"
       THEN /\ main_result' = Err(list_result.error)
            /\ sso_profiles' = <<>>
            /\ pc' = "exit"
       ELSE /\ sso_profiles' = list_result.value
            /\ pc' = "merge_clean"
            /\ UNCHANGED main_result
    /\ accountsServed' = <<>>
    /\ rolesServed' = <<>>
    /\ badResponse' = Unset
    /\ accMore' = TRUE
    /\ roleMore' = FALSE
    /\ account' = 0
    /\ requests' = <<>>
    /\ UNCHANGED <<list_result, populate, writes>>
    /\ UNCHANGED <<start_url, sso_region, inventory, authVars, mergeVars>>

\* main.rs 54-65: merge has returned Ok; the document is written to the
\* config file, which may fail, or printed.
Persist ==
    /\ pc = "merge_return"
    /\ IF populate
       THEN /\ writes' = Append(writes, <<"file", ini_map>>)
            /\ \E written \in BOOLEAN :
                   main_result' = IF written THEN Ok("()")
                                  ELSE Err("config file not written")
       ELSE /\ writes' = Append(writes, <<"stdout", ini_map>>)
            /\ main_result' = Ok("()")
    /\ pc' = "exit"
    /\ UNCHANGED populate
    /\ UNCHANGED <<start_url, sso_region, inventory, authVars, listVars, sso_profiles,
                   mergeVars>>

\* In a whole run the provider holds at most MaxRunAccounts account items
\* and MaxRunRoles role items.
MaxRunAccounts == 2

MaxRunRoles == 1

\* main.rs 30-38: the arguments are parsed, nothing has run.
Init ==
    /\ pc = "main"
    /\ InitLister
    /\ \E args \in CommandLines :
           /\ populate = args.populate
           /\ prefix = args.prefix
           /\ clean = args.clean
    /\ registered = Unset
    /\ registration = <<>>
    /\ authorized = Unset
    /\ session = <<>>
    /\ opened = "untried"
    /\ presented = 0
    /\ sleeps = 0
    /\ tokenRequests = 0
    /\ responses = <<>>
    /\ token_output = Unset
    /\ dcf_result = Unset
    /\ inventory = [accounts |-> MaxRunAccounts, roles |-> MaxRunRoles]
    /\ accountsServed = <<>>
    /\ rolesServed = <<>>
    /\ badResponse = Unset
    /\ accMore = TRUE
    /\ roleMore = FALSE
    /\ account = 0
    /\ requests = <<>>
    /\ sso_profiles = <<>>
    /\ list_result = Unset
    /\ ini_map = <<>>
    /\ ini0 = <<>>
    /\ idx = 0
    /\ merges = 0
    /\ writes = <<>>
    /\ main_result = Unset

Next ==
    \/ Main
    \/ NextAuth
    \/ ListDeviceCodeFlow
    \/ NextDiscover
    \/ ListProfiles
    \/ MergeClean
    \/ MergeProfile
    \/ MergeReturn
    \/ Persist

\* One run of the program.
Spec == Init /\ [][Next]_vars

(***************************************************************************)
(* Properties of the merge                                                 *)
(***************************************************************************)
ProfileWord == <<"p", "r", "o", "f", "i", "l", "e", " ">>

\* str begins with pat.
HasPrefix(str, pat) ==
    Len(pat) <= Len(str) /\ \A i \in 1..Len(pat) : str[i] = pat[i]

Hyphenated(str) == [i \in 1..Len(str) |-> IF str[i] = " " THEN "-" ELSE str[i]]

\* "profile " + prefix + account name, spaces as hyphens + "-" + role name
KeyOf(p) ==
    ProfileWord \o prefix \o Hyphenated(p.account_name) \o <<"-">> \o p.role_name

\* The section keys of the first k input profiles.
InputKeys(k) == { KeyOf(sso_profiles[j]) : j \in 1..k }

AllInputKeys == InputKeys(Len(sso_profiles))

NamesOf(map) == { map[i][1] : i \in 1..Len(map) }

\* The section names of map that start with "profile " + prefix.
OwnNames(map) == { n \in NamesOf(map) : HasPrefix(n, ProfileWord \o prefix) }

\* C8: with clean set, merge removes the sections of its own prefix before
\* it inserts anything and removes nothing it has inserted: when the loop
\* over the profiles starts no section name starts with "profile " +
\* prefix, after k profiles the sections with such a name are exactly the
\* keys of these k profiles, and after the merge exactly the keys of the
\* input.
C8_CleanThenInsert ==
    clean =>
        /\ (pc = "merge_loop" => OwnNames(ini_map) = InputKeys(idx))
        /\ (pc = "merge_return" => OwnNames(ini_map) = AllInputKeys)

\* C8's case: of two stale sections of the prefix one is re-created by an
\* input profile and the other is gone.
C8_Witness ==
    /\ clean
    /\ pc = "merge_return"
    /\ merges = 1
    /\ \E kept, gone \in OwnNames(ini0) :
           /\ kept \in AllInputKeys
           /\ kept \in NamesOf(ini_map)
           /\ gone \notin AllInputKeys
           /\ gone \notin NamesOf(ini_map)

\* The prefixes and bare profile names the sections of a document were
\* made with.
KnownPrefixes == { <<>>, <<"a", "-">>, <<"b", "-">> }

KnownBareNames ==
    { <<"D", "e", "v", "-", "T", "e", "a", "m", "-", "A", "d", "m", "i", "n">>,
      <<"P", "r", "o", "d", "-", "V", "i", "e", "w", "e", "r">> }

CreatedUnder(q, name) ==
    \E bare \in KnownBareNames : name = ProfileWord \o q \o bare

\* The section is in map, once, with the body it had before the merge.
Untouched(section, map) ==
    Cardinality({ j \in 1..Len(map) : map[j][1] = section[1] }) = 1
        /\ \E j \in 1..Len(map) : map[j] = section

\* C9 as the spec states it: a merge with clean set and prefix p leaves
\* every section created under another prefix q, and every section that is
\* no discovered-profile section, in the document with its content.
C9_OtherPrefixUntouched ==
    clean /\ pc = "merge_return" =>
        \A i \in 1..Len(ini0) :
            (\/ \E q \in KnownPrefixes \ {prefix} : CreatedUnder(q, ini0[i][1])
             \/ ~HasPrefix(ini0[i][1], ProfileWord))
                => Untouched(ini0[i], ini_map)

\* C9, amended: the clean step is scoped by the section name, not by the
\* prefix a section was created with.  A merge with clean set and prefix p
\* leaves every section whose name does not start with "profile " + p in
\* the document with its content, whatever it is; a section created under
\* another prefix q whose name starts with "profile " + p (every profile
\* section when p is empty) is removed by the clean step.
C9_CleanScopedByName ==
    clean =>
        /\ \A i \in 1..Len(ini0) :
               ~HasPrefix(ini0[i][1], ProfileWord \o prefix)
                   => Untouched(ini0[i], ini_map)
        /\ (pc = "merge_loop" /\ idx = 0
              => \A i \in 1..Len(ini0) :
                     HasPrefix(ini0[i][1], ProfileWord \o prefix)
                         => ini0[i][1] \notin NamesOf(ini_map))

\* C9's case: prefix "a-"; the section made with prefix "b-" and the one
\* that is no profile are kept, the stale section of "a-" is gone.
C9_Witness ==
    /\ clean
    /\ prefix = <<"a", "-">>
    /\ pc = "merge_return"
    /\ sso_profiles # <<>>
    /\ Len(ini0) = 3
    /\ \E i, j, k \in 1..Len(ini0) :
           /\ CreatedUnder(<<"b", "-">>, ini0[i][1])
           /\ Untouched(ini0[i], ini_map)
           /\ ~HasPrefix(ini0[j][1], ProfileWord)
           /\ Untouched(ini0[j], ini_map)
           /\ CreatedUnder(<<"a", "-">>, ini0[k][1])
           /\ ini0[k][1] \notin NamesOf(ini_map)

\* The (account, role) pairs of the input list.
Pairs ==
    { <<sso_profiles[j].account_id, sso_profiles[j].account_name,
        sso_profiles[j].role_name>> : j \in 1..Len(sso_profiles) }

\* The sections of map that carry the key of an input profile.
Created(map) == { i \in 1..Len(map) : map[i][1] \in AllInputKeys }

\* The last input profile with this section key.
LastWith(key) ==
    sso_profiles[CHOOSE j \in 1..Len(sso_profiles) :
                     /\ KeyOf(sso_profiles[j]) = key
                     /\ \A l \in (j + 1)..Len(sso_profiles) :
                            KeyOf(sso_profiles[l]) # key]

\* The four keys of a discovered section, in their order.
FourKeys(p) ==
    << <<"sso_start_url", <<p.start_url>> >>,
       <<"sso_region", <<p.sso_region>> >>,
       <<"sso_account_id", <<p.account_id>> >>,
       <<"sso_role_name", <<p.role_name>> >> >>

TwiceMerged == ~clean /\ pc = "merge_return" /\ merges = 2

\* C10 as the spec states it: after the same list was merged twice with
\* clean unset, the sections the merge created are as many as the distinct
\* (account, role) pairs of the list.
C10_OnePerPair ==
    TwiceMerged => Cardinality(Created(ini_map)) = Cardinality(Pairs)

\* C10, amended: after the same list was merged twice with clean unset the
\* document holds exactly one section per distinct section key of the
\* list, with the content of the last profile of the list that has this
\* key; the sections created are as many as the distinct keys, which is
\* as many as the distinct (account, role) pairs when no two pairs share a
\* key.
C10_OnePerKey ==
    TwiceMerged =>
        /\ Cardinality(Created(ini_map)) = Cardinality(AllInputKeys)
        /\ \A key \in AllInputKeys :
               /\ Cardinality({ i \in 1..Len(ini_map) : ini_map[i][1] = key }) = 1
               /\ \E i \in 1..Len(ini_map) :
                      ini_map[i] = <<key, FourKeys(LastWith(key))>>
        /\ (Cardinality(AllInputKeys) = Cardinality(Pairs)
              => Cardinality(Created(ini_map)) = Cardinality(Pairs))

\* C10's case: three pairs, two of which share their key, a section with
\* that key in the document beforehand: two sections after two merges.
C10_Witness ==
    /\ TwiceMerged
    /\ Cardinality(Pairs) = 3
    /\ Cardinality(AllInputKeys) = 2
    /\ Cardinality(Created(ini_map)) = 2
    /\ \E i \in 1..Len(ini0) : ini0[i][1] \in AllInputKeys

(***************************************************************************)
(* Properties of the merge: order and content of the sections              *)
(***************************************************************************)
\* How many sections of map carry this name.
Occurrences(map, name) ==
    Cardinality({ i \in 1..Len(map) : map[i][1] = name })

\* Where the section with this name stands in map.
PosOf(map, name) == CHOOSE i \in 1..Len(map) : map[i][1] = name

\* C11: when merge processes a profile whose section key is in the
\* document already, pre-existing or inserted earlier in the same run, then
\* right after this profile's remove-then-insert step the section is the
\* last of the document, its key occurs once, and the document has as many
\* sections as before the step.
C11_OverwriteMovesLast ==
    [][ (/\ pc = "merge_loop"
         /\ idx < Len(sso_profiles)
         /\ idx' = idx + 1
         /\ KeyOf(sso_profiles[idx + 1]) \in NamesOf(ini_map))
          => /\ ini_map'[Len(ini_map')][1] = KeyOf(sso_profiles[idx + 1])
             /\ Occurrences(ini_map', KeyOf(sso_profiles[idx + 1])) = 1
             /\ Len(ini_map') = Len(ini_map)
      ]_vars

\* C11's case: the first profile's key was that of the first of three
\* sections of the document; after its step the section is the last.
C11_Witness ==
    /\ ~clean
    /\ merges = 0
    /\ pc = "merge_loop"
    /\ idx = 1
    /\ Len(ini0) = 3
    /\ ini0[1][1] = KeyOf(sso_profiles[1])
    /\ Len(ini_map) = 3
    /\ ini_map[3][1] = KeyOf(sso_profiles[1])
    /\ Occurrences(ini_map, KeyOf(sso_profiles[1])) = 1

\* A section of the document before the merge that the merge is not
\* responsible for: the clean step does not remove it and no input profile
\* has its key.
Bystander(name) ==
    /\ ~(clean /\ HasPrefix(name, ProfileWord \o prefix))
    /\ name \notin AllInputKeys

\* C12: merge keeps the document order of the sections it is not
\* responsible for: two pre-existing sections that are neither removed by
\* the clean step nor overwritten by an input profile stand after the merge
\* in the order they stood in before it.
C12_BystandersKeepOrder ==
    pc = "merge_return" /\ merges = 1 =>
        \A i, j \in 1..Len(ini0) :
            (i < j /\ Bystander(ini0[i][1]) /\ Bystander(ini0[j][1]))
                => PosOf(ini_map, ini0[i][1]) < PosOf(ini_map, ini0[j][1])

\* C13: the section merge inserts for a profile is named "profile " +
\* prefix + account name with every space replaced by "-" + "-" + role
\* name, and its content is the four keys sso_start_url, sso_region,
\* sso_account_id, sso_role_name in this order with the profile's values;
\* account "Dev Team", role "Admin" and no prefix give the section
\* "profile Dev-Team-Admin".
C13_NameAndContent ==
    pc = "merge_loop" /\ idx >= 1 =>
        LET p == sso_profiles[idx]
            section == <<KeyOf(p), FourKeys(p)>>
        IN
            /\ \E i \in 1..Len(ini_map) : ini_map[i] = section
            /\ ((/\ prefix = <<>>
                 /\ p.account_name = <<"D", "e", "v", " ", "T", "e", "a", "m">>
                 /\ p.role_name = <<"A", "d", "m", "i", "n">>)
                  => \E i \in 1..Len(ini_map) :
                         ini_map[i][1] =
                             <<"p", "r", "o", "f", "i", "l", "e", " ",
                               "D", "e", "v", "-", "T", "e", "a", "m", "-",
                               "A", "d", "m", "i", "n">>)

\* C13's case: account "Dev Team" (id 111), role "Admin", prefix "a-": the
\* section "profile a-Dev-Team-Admin" with the four keys of that profile.
C13_Witness ==
    /\ pc = "merge_loop"
    /\ idx >= 1
    /\ prefix = <<"a", "-">>
    /\ sso_profiles[idx].account_name = <<"D", "e", "v", " ", "T", "e", "a", "m">>
    /\ \E i \in 1..Len(ini_map) :
           /\ ini_map[i][1] = <<"p", "r", "o", "f", "i", "l", "e", " ",
                                "a", "-", "D", "e", "v", "-", "T", "e", "a",
                                "m", "-", "A", "d", "m", "i", "n">>
           /\ Len(ini_map[i][2]) = 4
           /\ ini_map[i][2][3] = <<"sso_account_id", <<"111">> >>
           /\ ini_map[i][2][4] = <<"sso_role_name", <<sso_profiles[idx].role_name>> >>

\* The last of the first k input profiles with this section key.
LastAmong(k, key) ==
    sso_profiles[CHOOSE j \in 1..k :
                     /\ KeyOf(sso_profiles[j]) = key
                     /\ \A l \in (j + 1)..k : KeyOf(sso_profiles[l]) # key]

\* The document holds the key once, with the four keys of profile p and
\* nothing else.
HoldsOnly(map, key, p) ==
    /\ Occurrences(map, key) = 1
    /\ LET body == map[PosOf(map, key)][2] IN
           /\ body = FourKeys(p)
           /\ \A e \in 1..Len(body) : body[e][1] # "comment"

\* C17, as state invariant: the document holds each section key of the
\* profiles processed so far once, with the content of the last of these
\* profiles that has this key and nothing else.
C17_State ==
    /\ (pc = "merge_loop"
          => \A key \in InputKeys(idx) :
                 HoldsOnly(ini_map, key, LastAmong(idx, key)))
    /\ (pc = "merge_return"
          => \A key \in AllInputKeys :
                 HoldsOnly(ini_map, key, LastAmong(Len(sso_profiles), key)))

\* C17: last write wins on a collision of section keys.  After the merge,
\* and after every step of it, the document holds each section key of the
\* profiles processed so far once, with the content of the last of these
\* profiles that has this key, whether the key was held before by a section
\* of the document or by a section inserted earlier in the same run; no key
\* of the earlier content is left.
C17_LastWriteWins == []C17_State

\* C17's case: the document held the key, and two profiles of the list
\* (accounts 111 and 222) map to it: the section is that of account 222.
C17_Witness ==
    /\ pc = "merge_return"
    /\ merges = 1
    /\ ~clean
    /\ Len(sso_profiles) >= 2
    /\ sso_profiles[1].account_id = "111"
    /\ sso_profiles[2].account_id = "222"
    /\ KeyOf(sso_profiles[1]) = KeyOf(sso_profiles[2])
    /\ KeyOf(sso_profiles[1]) \in NamesOf(ini0)
    /\ \A l \in 3..Len(sso_profiles) :
           KeyOf(sso_profiles[l]) # KeyOf(sso_profiles[1])
    /\ HoldsOnly(ini_map, KeyOf(sso_profiles[2]), sso_profiles[2])

\* The place in the input list of the last profile with this section key.
LastOccurrence(key) ==
    CHOOSE j \in 1..Len(sso_profiles) :
        /\ KeyOf(sso_profiles[j]) = key
        /\ \A l \in (j + 1)..Len(sso_profiles) : KeyOf(sso_profiles[l]) # key

\* C19: after the merge the sections created from the input profiles are
\* the tail of the document, after every pre-existing section that is
\* left, and stand there in the order of the last occurrence of their key
\* in the input list, also when the document held some of these keys
\* before.
C19_CreatedFormTheTail ==
    pc = "merge_return" /\ merges = 1 =>
        /\ \A i, j \in 1..Len(ini_map) :
               (ini_map[i][1] \notin AllInputKeys
                    /\ ini_map[j][1] \in AllInputKeys) => i < j
        /\ \A i, j \in 1..Len(ini_map) :
               (i < j /\ ini_map[i][1] \in AllInputKeys
                      /\ ini_map[j][1] \in AllInputKeys)
                   => LastOccurrence(ini_map[i][1])
                          < LastOccurrence(ini_map[j][1])

(***************************************************************************)
(* Properties of the presentation of the verification URI                  *)
(***************************************************************************)
\* The device authorization response carried the complete verification URI
\* and the device code.
Authorized ==
    /\ authorized.kind = "Ok"
    /\ authorized.value.verification_uri_complete # None
    /\ authorized.value.device_code # None

\* C16, as state invariant: the URI is never presented without such a
\* response nor twice, it was presented once as soon as the open was tried,
\* however the open ended, and no token request is sent before.
C16_State ==
    /\ presented <= 1
    /\ (~Authorized => presented = 0 /\ opened = "untried")
    /\ (Authorized /\ pc # "open" => presented = 1 /\ opened # "untried")
    /\ (tokenRequests > 0 \/ sleeps > 0 \/ responses # <<>> => presented = 1)
    /\ (dcf_result.kind = "Err" /\ responses = <<>> => opened = "untried")

\* C16: once a device authorization response with verification URI and
\* device code was received the URI is presented exactly once, whether
\* open::that succeeds or fails; a failed open is no error: the flow goes
\* on to the polling loop; and the URI is presented before the first token
\* request is sent.
C16_PresentedOnce ==
    /\ []C16_State
    /\ [][pc = "open" => /\ Authorized
                         /\ presented' = 1
                         /\ opened' \in {"ok", "failed"}
                         /\ pc' = "sleep"
                         /\ tokenRequests' = 0
                         /\ dcf_result' = Unset]_vars

\* C16's case: the open failed, the URI was presented once, and the flow
\* went on to return the access token.
C16_Witness ==
    /\ opened = "failed"
    /\ presented = 1
    /\ tokenRequests >= 1
    /\ dcf_result = Ok("T")

(***************************************************************************)
(* Properties of the discovery: one account at a time                      *)
(***************************************************************************)
\* The account that was yielded last has its id and its name.
AccountValidated ==
    /\ account >= 1
    /\ accountsServed[account].account_id # None
    /\ accountsServed[account].account_name # None

\* C18, as state invariant: roles are listed for the validated account that
\* was yielded last and for no later one, and when the next account is
\* about to be taken the role pages of that account are used up.
C18_State ==
    /\ (pc = "roles_next" => AccountValidated)
    /\ (pc = "accounts_next" => ~roleMore)
    /\ \A k \in DOMAIN rolesServed :
           rolesServed[k] # <<>> => k <= account

\* C18: the discovery goes account by account.  A role-listing request is
\* sent for the account that was yielded last, after its id and name were
\* validated, and carries its id; the next account is taken only when the
\* role pages of this one are used up; so the role listings of two accounts
\* are never in progress together.
C18_OneAccountAtATime ==
    /\ []C18_State
    /\ [][ (requests' # requests
              /\ requests'[Len(requests')][1] = "list_account_roles")
             => /\ pc = "roles_next"
                /\ AccountValidated
                /\ account' = account
                /\ requests'[Len(requests')][2]
                       = accountsServed[account].account_id[1]
         ]_vars
    /\ [][ account' # account
             => /\ pc = "accounts_next"
                /\ ~roleMore
                /\ account' = account + 1
         ]_vars

\* C18's case: the roles of the first account came in two pages, both
\* fetched before the one request for the roles of the second account.
C18_Witness ==
    /\ account = 2
    /\ Len(requests) >= 4
    /\ requests[2] = <<"list_account_roles", "111">>
    /\ requests[3] = <<"list_account_roles", "111">>
    /\ requests[4] = <<"list_account_roles", "222">>
    /\ rolesServed[1] # <<>>
    /\ ~roleMore

(***************************************************************************)
(* Properties of the run                                                   *)
(***************************************************************************)
\* C14: the configuration document is persisted, written to the config
\* file or printed, at most once in a run, and only when the
\* authentication, the discovery and the whole merge have succeeded, and
\* then as the merge left it.  While the run is registering, authorizing,
\* polling, listing or merging, and in every run that a failed
\* registration, device authorization, token request, page fetch,
\* validation or config file load has ended, nothing was written.
C14_PersistAfterSuccess ==
    /\ Len(writes) <= 1
    /\ (pc # "exit" => writes = <<>> /\ main_result = Unset)
    /\ (dcf_result.kind # "Ok" \/ list_result.kind # "Ok" => writes = <<>>)
    /\ (main_result.kind = "Err"
            /\ main_result.error # "config file not written"
          => writes = <<>>)
    /\ (writes # <<>>
          => /\ pc = "exit"
             /\ dcf_result.kind = "Ok"
             /\ list_result.kind = "Ok"
             /\ sso_profiles = list_result.value
             /\ merges = 1
             /\ idx = Len(sso_profiles)
             /\ writes[1] = <<IF populate THEN "file" ELSE "stdout", ini_map>>
             /\ \A j \in 1..Len(sso_profiles) :
                    KeyOf(sso_profiles[j]) \in NamesOf(writes[1][2]))

\* C14's case: with --populate a config file was loaded, a profile was
\* discovered and merged, and the document was written once, to the file.
C14_Witness ==
    /\ pc = "exit"
    /\ populate
    /\ ini0 # <<>>
    /\ Len(sso_profiles) = 1
    /\ Len(writes) = 1
    /\ writes[1][1] = "file"
    /\ Len(writes[1][2]) > Len(sso_profiles)
    /\ main_result = Ok("()")

\* The registration response carried the client id and the client secret.
Registered ==
    /\ registered.kind = "Ok"
    /\ registered.value.client_id # None
    /\ registered.value.client_secret # None

\* C15, the registration: a response that is an error or lacks the client
\* id or the client secret has failed device_code_flow with its error, and
\* no device authorization request was sent.
C15_Registration ==
    /\ (registered.kind = "Err"
          => pc = "dcf_return" /\ dcf_result = Err(registered.error))
    /\ (registered.kind = "Ok" /\ registered.value.client_id = None
          => /\ pc = "dcf_return"
             /\ dcf_result =
                    Err("SSO Client Registration provided no client id"))
    /\ (registered.kind = "Ok" /\ registered.value.client_id # None
                               /\ registered.value.client_secret = None
          => /\ pc = "dcf_return"
             /\ dcf_result =
                    Err("SSO Client Registration provided no client secret"))
    /\ (~Registered => authorized = Unset /\ registration = <<>>)
    /\ (pc = "start_device_authorization" \/ authorized # Unset
          => /\ Registered
             /\ registration = <<registered.value.client_id[1],
                                 registered.value.client_secret[1]>>)

\* C15, the device authorization: a response that is an error or lacks the
\* complete verification URI or the device code has failed
\* device_code_flow with its error, and no token request was sent.
C15_DeviceAuthorization ==
    /\ (authorized.kind = "Err"
          => pc = "dcf_return" /\ dcf_result = Err(authorized.error))
    /\ (authorized.kind = "Ok"
            /\ authorized.value.verification_uri_complete = None
          => /\ pc = "dcf_return"
             /\ dcf_result =
                    Err("SSO Device Authorization provided no verification URL"))
    /\ (authorized.kind = "Ok"
            /\ authorized.value.verification_uri_complete # None
            /\ authorized.value.device_code = None
          => /\ pc = "dcf_return"
             /\ dcf_result =
                    Err("SSO Device Authorization provided no device code"))
    /\ (~Authorized
          => /\ session = <<>>
             /\ opened = "untried"
             /\ sleeps = 0
             /\ tokenRequests = 0
             /\ responses = <<>>)
    /\ (pc \in {"open", "sleep", "create_token", "access_token"}
            \/ tokenRequests > 0
          => /\ Authorized
             /\ session = <<authorized.value.verification_uri_complete[1],
                            authorized.value.device_code[1]>>)

\* C15, the token: a token output without access token has failed
\* device_code_flow, a result Ok carries the access token of the token
\* output, and no list_accounts or list_account_roles request is sent
\* unless device_code_flow has returned an access token.
C15_Token ==
    /\ (pc = "dcf_return" /\ token_output # Unset
            /\ token_output.access_token = None
          => dcf_result = Err("Token output provided no access token"))
    /\ (pc = "dcf_return" /\ dcf_result.kind = "Ok"
          => /\ token_output # Unset
             /\ token_output.access_token = Some(dcf_result.value))
    /\ (requests # <<>> \/ pc \in {"accounts_next", "roles_next", "lsp_return"}
            \/ list_result # Unset
          => dcf_result.kind = "Ok")

\* C15: the authentication registers the client, starts the device
\* authorization and polls for the token in this order, each step only
\* after the one before has succeeded with all its required fields, and
\* the discovery sends no request unless an access token was obtained.
C15_StepsInOrder ==
    C15_Registration /\ C15_DeviceAuthorization /\ C15_Token

\* C15's case: the registration was complete, the device authorization
\* response has the verification URI but no device code: the flow has
\* failed, and neither a token request nor a listing request was sent.
C15_Witness ==
    /\ pc = "dcf_return"
    /\ Registered
    /\ authorized.kind = "Ok"
    /\ authorized.value.verification_uri_complete # None
    /\ authorized.value.device_code = None
    /\ dcf_result = Err("SSO Device Authorization provided no device code")
    /\ tokenRequests = 0
    /\ requests = <<>>

=============================================================================
